---- MODULE Spec2Model ----
(***************************************************************************)
(* Model of the ecommerce-chat-platform API server (services/api/src/      *)
(* server.ts, kept here as src/unnamed/part_000) and of the two pieces of  *)
(* the clients that report its data (admin orders tab, web client).        *)
(*                                                                         *)
(* A request handler is an async function: between two awaits other        *)
(* requests may run and the process may crash.  Each handler is therefore  *)
(* a small program counter: one action per await, which performs the       *)
(* awaited database operation and the synchronous code that follows it up  *)
(* to the next await.  Numbers of JSON bodies that may be fractional       *)
(* (quantity) are carried doubled, so that 1 is the JSON number 0.5.       *)
(***************************************************************************)
EXTENDS Integers, Sequences, FiniteSets, TLC

\* ------------------------------------------------------------- bounds
MaxItemId == 2      \* cart lines ever created
MaxOrders == 1      \* orders ever created
MaxLineQty == 3     \* largest quantity a cart line reaches
MaxSockets == 2     \* chat connections ever opened
MaxMessages == 2    \* chat messages ever persisted
MaxProducts == 3    \* products ever created

VARIABLES
    users,       \* table User: sequence, a user's id is its index
    issued,      \* bearer tokens handed out by register/login
    products,    \* table Product: id -> [name, price, stock]
    carts,       \* table Cart: sequence of owner ids, a cart's id is its index
    cartItems,   \* table CartItem: set of [id, cartId, productId, quantity]
    nextItemId,  \* next CartItem id
    orders,      \* table Order: sequence of [userId, total, status, items]
    messages,    \* table Message: sequence of [userId, content], a message's id is its index
    sockets,     \* socket id -> "new" (not yet connected), "open" or "closed"
    joined,      \* socket id -> the rooms it entered with socket.join
    delivered,   \* socket id -> the ids of the messages emitted to it as newMessage
    req,         \* the in-flight request (or last response) of each slot
    replay,      \* reference cart of each user: the add/remove calls replayed
    browser      \* the browser of one person: local storage, page state, requests sent

chatVars == <<sockets, joined, delivered>>
vars == <<users, issued, products, carts, cartItems, nextItemId, orders, messages,
          sockets, joined, delivered, req, replay, browser>>

\* ------------------------------------------------------------- values
JWT_SECRET == "devsecret"

EmailA == <<"a", "@", "x">>
EmailB == <<"b", "@", "x">>
NotAnEmail == <<"a", "x">>

\* mutant of Sign: the payload carries the email only
signEmail(id, email) == [id |-> 0, email |-> email, sig |-> JWT_SECRET]

\* jwt.sign({ id: user.id, email: user.email }, JWT_SECRET)
Sign(id, email) == [id |-> id, email |-> email, sig |-> JWT_SECRET]
NoToken == [id |-> 0, email |-> <<>>, sig |-> "absent"]
ForgedToken == [id |-> 1, email |-> EmailA, sig |-> "othersecret"]

ProductIds == {1, 2}
Prices == {1, 2}           \* the prices an admin gives a product
OtherProductIds == {3}        \* ids no product has
UserIds == 1..Len(users)

Slots == {1}
SocketIds == 1..MaxSockets

\* bcrypt.hash(password, 10)
hash(password) == <<"bcrypt", password>>

\* A request slot.  status = 0: no response sent yet.
NoBody == [productId |-> 0, quantity |-> 0, id |-> 0, name |-> "", price |-> 0, stock |-> 0,
           email |-> <<>>, password |-> "", userId |-> 0, recipientId |-> 0, status |-> ""]
Idle == [op |-> "none", pc |-> "idle", user |-> 0, body |-> NoBody, cart |-> 0,
         items |-> {}, item |-> 0, itemQty |-> 0, order |-> 0, socket |-> 0,
         status |-> 0, details |-> FALSE, fault |-> FALSE, token |-> NoToken,
         isAdmin |-> FALSE, listed |-> {}]

Free(r) == req[r].pc \in {"idle", "done", "crashed"}

\* The browser before any page is used.  Admin app: the login page's loading and
\* error, the fetch it awaits (body, res), localStorage (token, user), the page shown
\* (location), the console's token state (stateToken) and the bearer tokens of the
\* requests it sent on load (sent).  Web app: its socket, the chat list (messages), the
\* history response on its way (history) and the pushed events taken so far (seen).
NoUser == [id |-> 0, isAdmin |-> FALSE]
NoResponse == [ok |-> FALSE, status |-> 0, error |-> "", token |-> NoToken, user |-> NoUser]
NoBrowser == [location |-> "/admin-login", pc |-> "idle", loading |-> FALSE, error |-> "",
              body |-> NoBody, res |-> NoResponse, token |-> NoToken, user |-> NoUser,
              stateToken |-> NoToken, sent |-> <<>>,
              socket |-> 0, messages |-> <<>>, history |-> <<>>, seen |-> 0]
InFlight(r) == ~Free(r)

\* ------------------------------------------------------------- middleware
\* authenticateToken: 0 = next(), otherwise the status it answers with.
authenticateToken(token) ==
    IF token = NoToken THEN 401
    ELSE IF token.sig # JWT_SECRET THEN 403
    ELSE 0

\* mutant of requireAdmin: the gate lets every authenticated request through
requireAdminSkipped(id) == 0

\* mutant of requireAdmin: only the user's existence is checked
requireUser(id) ==
    IF id \notin UserIds THEN 403 ELSE 0

\* requireAdmin, once prisma.user.findUnique has answered.
requireAdmin(id) ==
    IF id \notin UserIds \/ ~users[id].isAdmin THEN 403 ELSE 0

\* ------------------------------------------------------------- schemas
\* mutant of cartSchema: .positive() is left out
cartSchemaNoPositive(body) ==
    /\ body.productId # 0
    /\ body.quantity % 2 = 0

\* mutant of cartSchema: .int() is left out
cartSchemaNoInt(body) ==
    /\ body.productId # 0
    /\ body.quantity > 0

\* z.number().int().positive() on a doubled number
cartSchema(body) ==
    /\ body.productId # 0
    /\ body.quantity % 2 = 0
    /\ body.quantity > 0

productSchema(body) ==
    /\ body.name # ""
    /\ body.price > 0
    /\ body.stock >= 0

\* ------------------------------------------------------------- queries
\* mutant of findCart: the lookup never finds the cart
findNoCart(userId) == 0

\* prisma.cart.findUnique({ where: { userId } }): the cart's id, 0 for null
findCart(userId) ==
    IF \E i \in 1..Len(carts) : carts[i] = userId
    THEN CHOOSE i \in 1..Len(carts) : carts[i] = userId
    ELSE 0

LinesOf(cartId) == {l \in cartItems : l.cartId = cartId}

\* mutant of total: the quantity is left out of the sum
RECURSIVE totalOfPrices(_)
totalOfPrices(items) ==
    IF items = {} THEN 0
    ELSE LET item == CHOOSE i \in items : TRUE
         IN item.price + totalOfPrices(items \ {item})

\* cart.items.reduce((sum, item) => sum + item.product.price * item.quantity, 0)
RECURSIVE total(_)
total(items) ==
    IF items = {} THEN 0
    ELSE LET item == CHOOSE i \in items : TRUE
         IN item.price * item.quantity + total(items \ {item})

\* findUnique({ where: { userId }, include: { items: { include: { product: true } } } }):
\* the cart's lines, each joined with its product's current price
includeItems(cartId) ==
    {[id |-> l.id, productId |-> l.productId, quantity |-> l.quantity,
      price |-> products[l.productId].price] : l \in LinesOf(cartId)}

\* cart.items.map(item => ({ productId, quantity, price: item.product.price }))
orderItems(items) ==
    {[line |-> i.id, productId |-> i.productId, quantity |-> i.quantity, price |-> i.price] :
        i \in items}

\* ------------------------------------------------------------- inputs
Tokens == issued \cup {NoToken, ForgedToken}
BadTokens == {NoToken, ForgedToken}

CartBodies ==
    {[NoBody EXCEPT !.productId = p, !.quantity = q] :
        p \in ProductIds \cup OtherProductIds, q \in {2, 4}}
    \cup {[NoBody EXCEPT !.productId = 1, !.quantity = q] : q \in {-2, 0, 1}}
    \cup {[NoBody EXCEPT !.productId = 0, !.quantity = 2]}

GoodProduct(id, price) ==
    [NoBody EXCEPT !.id = id, !.name = "Widget", !.price = price, !.stock = 1]

ProductBodies ==
    {GoodProduct(i, p) : i \in ProductIds \cup OtherProductIds, p \in Prices}
    \cup {[GoodProduct(1, 1) EXCEPT !.name = ""], [GoodProduct(1, 1) EXCEPT !.price = 0],
          [GoodProduct(1, 1) EXCEPT !.stock = -1]}

Begin(r, op, token, body, pc) ==
    [Idle EXCEPT !.op = op, !.pc = pc, !.user = token.id, !.body = body]

\* what a slot shows once the response is sent: the route and the status
Answer(op, code) == [Idle EXCEPT !.op = op, !.pc = "done", !.status = code]

\* catch of a ZodError: res.status(400).json({ error: 'Invalid input', details: error.issues })
Invalid(op) == [Answer(op, 400) EXCEPT !.details = TRUE]

dbVars == <<users, issued, products, carts, cartItems, nextItemId, orders, messages>>

\* ------------------------------------------------------------- POST /cart
\* the quantity a line of the user's cart has for the product, 0 without one
LineQty(userId, productId) ==
    LET ls == {l \in LinesOf(findCart(userId)) : l.productId = productId}
    IN IF ls = {} THEN 0 ELSE (CHOOSE l \in ls : \A m \in ls : m.quantity <= l.quantity).quantity

postCart(r, tokens, bodies) ==
    /\ Free(r)
    /\ \E token \in tokens, body \in bodies :
        LET denied == authenticateToken(token) IN
        /\ nextItemId <= MaxItemId
        /\ denied = 0 /\ cartSchema(body)
              => LineQty(token.id, body.productId) + body.quantity \div 2 <= MaxLineQty
        /\ req' = [req EXCEPT ![r] =
                IF denied # 0 THEN Answer("addToCart", denied)
                ELSE IF ~cartSchema(body) THEN Invalid("addToCart")
                ELSE Begin(r, "addToCart", token, body, "findCart")]
    /\ UNCHANGED <<dbVars, replay, chatVars, browser>>

\* Cart.userId is unique (findUnique on it): a second cart of one user is refused
cartUserIdFree(userId) == findCart(userId) = 0

postCart_findUnique(r) ==
    /\ req[r].op = "addToCart" /\ req[r].pc = "findCart"
    /\ LET cart == findCart(req[r].user) IN
        req' = [req EXCEPT ![r] =
            IF cart = 0 THEN [req[r] EXCEPT !.pc = "createCart"]
            ELSE [req[r] EXCEPT !.pc = "findItem", !.cart = cart]]
    /\ UNCHANGED <<dbVars, replay, chatVars, browser>>

postCart_cartCreate(r) ==
    /\ req[r].op = "addToCart" /\ req[r].pc = "createCart"
    /\ IF cartUserIdFree(req[r].user)
       THEN /\ carts' = Append(carts, req[r].user)
            /\ req' = [req EXCEPT ![r] = [req[r] EXCEPT !.pc = "findItem", !.cart = Len(carts) + 1]]
       ELSE /\ carts' = carts
            /\ req' = [req EXCEPT ![r] = Answer(req[r].op, 500)]
    /\ UNCHANGED <<users, issued, products, cartItems, nextItemId, orders, messages, replay,
                   chatVars, browser>>

\* mutant of existingItems: the product id is matched against the line id
existingItemsById(cartId, productId) == {l \in LinesOf(cartId) : l.id = productId}

\* where: { cartId: cart.id, productId }
existingItems(cartId, productId) == {l \in LinesOf(cartId) : l.productId = productId}

postCart_findFirst(r) ==
    /\ req[r].op = "addToCart" /\ req[r].pc = "findItem"
    /\ LET found == existingItems(req[r].cart, req[r].body.productId) IN
        IF found = {}
        THEN req' = [req EXCEPT ![r] = [req[r] EXCEPT !.pc = "createItem"]]
        ELSE \E existingItem \in found :
                req' = [req EXCEPT ![r] = [req[r] EXCEPT !.pc = "updateItem",
                            !.item = existingItem.id, !.itemQty = existingItem.quantity]]
    /\ UNCHANGED <<dbVars, replay, chatVars, browser>>

Added(r) ==
    [replay EXCEPT ![req[r].user][req[r].body.productId] = @ + req[r].body.quantity \div 2]

\* mutant of mergedQuantity: the new quantity replaces the line's
replacedQuantity(existing, quantity) == quantity

\* data: { quantity: existingItem.quantity + quantity }
mergedQuantity(existing, quantity) == existing + quantity

postCart_update(r) ==
    /\ req[r].op = "addToCart" /\ req[r].pc = "updateItem"
    /\ mergedQuantity(req[r].itemQty, req[r].body.quantity \div 2) <= MaxLineQty
    /\ IF \E l \in cartItems : l.id = req[r].item
       THEN /\ cartItems' = {IF l.id = req[r].item
                             THEN [l EXCEPT !.quantity =
                                     mergedQuantity(req[r].itemQty, req[r].body.quantity \div 2)]
                             ELSE l : l \in cartItems}
            /\ req' = [req EXCEPT ![r] = Answer(req[r].op, 200)]
            /\ replay' = Added(r)
       ELSE /\ cartItems' = cartItems
            /\ req' = [req EXCEPT ![r] = Answer(req[r].op, 500)]
            /\ replay' = replay
    /\ UNCHANGED <<users, issued, products, carts, nextItemId, orders, messages, chatVars, browser>>

\* CartItem.productId references Product
productExists(productId) == productId \in DOMAIN products

\* CartItem is unique per (cart, product): a second line of the pair is refused
cartItemFree(cartId, productId) ==
    ~\E l \in cartItems : l.cartId = cartId /\ l.productId = productId

postCart_create(r) ==
    /\ req[r].op = "addToCart" /\ req[r].pc = "createItem"
    /\ nextItemId <= MaxItemId
    /\ IF productExists(req[r].body.productId)
          /\ cartItemFree(req[r].cart, req[r].body.productId)
       THEN /\ cartItems' = cartItems \cup
                    {[id |-> nextItemId, cartId |-> req[r].cart,
                      productId |-> req[r].body.productId,
                      quantity |-> req[r].body.quantity \div 2]}
            /\ nextItemId' = nextItemId + 1
            /\ req' = [req EXCEPT ![r] = Answer(req[r].op, 200)]
            /\ replay' = Added(r)
       ELSE /\ UNCHANGED <<cartItems, nextItemId, replay>>
            /\ req' = [req EXCEPT ![r] = Answer(req[r].op, 500)]
    /\ UNCHANGED <<users, issued, products, carts, orders, messages, chatVars, browser>>

\* ------------------------------------------------------------- DELETE /cart/:productId
deleteCart(r, tokens) ==
    /\ Free(r)
    /\ \E token \in tokens, productId \in ProductIds \cup OtherProductIds :
        LET denied == authenticateToken(token) IN
        req' = [req EXCEPT ![r] =
            IF denied # 0 THEN Answer("removeFromCart", denied)
            ELSE Begin(r, "removeFromCart", token, [NoBody EXCEPT !.productId = productId],
                       "findCart")]
    /\ UNCHANGED <<dbVars, replay, chatVars, browser>>

deleteCart_findUnique(r) ==
    /\ req[r].op = "removeFromCart" /\ req[r].pc = "findCart"
    /\ LET cart == findCart(req[r].user) IN
        req' = [req EXCEPT ![r] =
            IF cart = 0 THEN Answer(req[r].op, 404)
            ELSE [req[r] EXCEPT !.pc = "deleteItems", !.cart = cart]]
    /\ UNCHANGED <<dbVars, replay, chatVars, browser>>

deleteCart_deleteMany(r) ==
    /\ req[r].op = "removeFromCart" /\ req[r].pc = "deleteItems"
    /\ cartItems' = {l \in cartItems :
                        ~(l.cartId = req[r].cart /\ l.productId = req[r].body.productId)}
    /\ req' = [req EXCEPT ![r] = Answer(req[r].op, 200)]
    /\ replay' = [replay EXCEPT ![req[r].user] =
                    [p \in DOMAIN @ |-> IF p = req[r].body.productId THEN 0 ELSE @[p]]]
    /\ UNCHANGED <<users, issued, products, carts, nextItemId, orders, messages, chatVars, browser>>

\* ------------------------------------------------------------- POST /orders
\* Order.status when none is given
DefaultStatus == "pending"

postOrders(r, tokens) ==
    /\ Free(r)
    /\ \E token \in tokens :
        LET denied == authenticateToken(token) IN
        /\ denied = 0 /\ LinesOf(findCart(token.id)) # {} => Len(orders) < MaxOrders
        /\ req' = [req EXCEPT ![r] =
            IF denied # 0 THEN Answer("createOrder", denied)
            ELSE Begin(r, "createOrder", token, NoBody, "findCart")]
    /\ UNCHANGED <<dbVars, replay, chatVars, browser>>

\* mutant of cartIsEmpty: only a missing cart counts as empty
cartIsMissing(cart, items) == cart = 0

\* if (!cart || cart.items.length === 0)
cartIsEmpty(cart, items) == cart = 0 \/ items = {}

postOrders_findUnique(r) ==
    /\ req[r].op = "createOrder" /\ req[r].pc = "findCart"
    /\ LET cart == findCart(req[r].user)
           items == IF cart = 0 THEN {} ELSE includeItems(cart)
       IN req' = [req EXCEPT ![r] =
            IF cartIsEmpty(cart, items) THEN Answer(req[r].op, 400)
            ELSE [req[r] EXCEPT !.pc = "createOrder", !.cart = cart, !.items = items]]
    /\ UNCHANGED <<dbVars, replay, chatVars, browser>>

\* data: { userId, total, items: { create: ... } }
newOrder(userId, items) ==
    [userId |-> userId, total |-> total(items), status |-> DefaultStatus,
     items |-> orderItems(items)]

postOrders_orderCreate(r) ==
    /\ req[r].op = "createOrder" /\ req[r].pc = "createOrder"
    /\ orders' = Append(orders, newOrder(req[r].user, req[r].items))
    /\ req' = [req EXCEPT ![r] = [req[r] EXCEPT !.pc = "clearCart", !.order = Len(orders) + 1]]
    /\ UNCHANGED <<users, issued, products, carts, cartItems, nextItemId, messages, replay,
                   chatVars, browser>>

\* prisma.cartItem.deleteMany({ where: { cartId: cart.id } })
clearCart(cartId) == {l \in cartItems : l.cartId # cartId}

postOrders_deleteMany(r) ==
    /\ req[r].op = "createOrder" /\ req[r].pc = "clearCart"
    /\ cartItems' = clearCart(req[r].cart)
    /\ req' = [req EXCEPT ![r] = Answer(req[r].op, 200)]
    /\ replay' = [replay EXCEPT ![req[r].user] = [p \in DOMAIN @ |-> 0]]
    /\ UNCHANGED <<users, issued, products, carts, nextItemId, orders, messages, chatVars, browser>>

\* ------------------------------------------------------------- PUT /admin/products/:id
putAdminProduct(r, tokens, bodies) ==
    /\ Free(r)
    /\ \E token \in tokens, body \in bodies :
        LET denied == authenticateToken(token) IN
        req' = [req EXCEPT ![r] =
            IF denied # 0 THEN Answer("updateProduct", denied)
            ELSE Begin(r, "updateProduct", token, body, "findAdmin")]
    /\ UNCHANGED <<dbVars, replay, chatVars, browser>>

putAdminProduct_requireAdmin(r) ==
    /\ req[r].op = "updateProduct" /\ req[r].pc = "findAdmin"
    /\ LET denied == requireAdmin(req[r].user) IN
        req' = [req EXCEPT ![r] =
            IF denied # 0 THEN Answer(req[r].op, denied)
            ELSE IF ~productSchema(req[r].body) THEN Invalid(req[r].op)
            ELSE [req[r] EXCEPT !.pc = "updateProduct"]]
    /\ UNCHANGED <<dbVars, replay, chatVars, browser>>

putAdminProduct_update(r) ==
    /\ req[r].op = "updateProduct" /\ req[r].pc = "updateProduct"
    /\ IF req[r].body.id \in DOMAIN products
       THEN /\ products' = [products EXCEPT ![req[r].body.id] =
                    [name |-> req[r].body.name, price |-> req[r].body.price,
                     stock |-> req[r].body.stock]]
            /\ req' = [req EXCEPT ![r] = Answer(req[r].op, 200)]
       ELSE /\ products' = products
            /\ req' = [req EXCEPT ![r] = Answer(req[r].op, 500)]
    /\ UNCHANGED <<users, issued, carts, cartItems, nextItemId, orders, messages, replay,
                   chatVars, browser>>

\* ------------------------------------------------------------- POST /products
\* no middleware in front of this route
postProducts(r, bodies) ==
    /\ Free(r)
    /\ Len(products) < MaxProducts
    /\ \E body \in bodies :
        req' = [req EXCEPT ![r] =
            IF ~productSchema(body) THEN Invalid("createProduct")
            ELSE [Idle EXCEPT !.op = "createProduct", !.pc = "createProduct", !.body = body]]
    /\ UNCHANGED <<dbVars, replay, chatVars, browser>>

\* prisma.product.create({ data }); the new product's id is the next index
postProducts_create(r) ==
    /\ req[r].op = "createProduct" /\ req[r].pc = "createProduct"
    /\ Len(products) < MaxProducts
    /\ products' = Append(products, [name |-> req[r].body.name, price |-> req[r].body.price,
                                     stock |-> req[r].body.stock])
    /\ req' = [req EXCEPT ![r] = Answer(req[r].op, 200)]
    /\ UNCHANGED <<users, issued, carts, cartItems, nextItemId, orders, messages, replay,
                   chatVars, browser>>

\* ------------------------------------------------------------- GET /admin/...
\* GET /admin/users, GET /admin/orders, GET /admin/stats
AdminReads == {"adminUsers", "adminOrders", "adminStats"}

getAdmin(r, tokens) ==
    /\ Free(r)
    /\ \E token \in tokens, route \in AdminReads :
        LET denied == authenticateToken(token) IN
        req' = [req EXCEPT ![r] =
            IF denied # 0 THEN Answer(route, denied)
            ELSE Begin(r, route, token, NoBody, "findAdmin")]
    /\ UNCHANGED <<dbVars, replay, chatVars, browser>>

\* requireAdmin in front of the admin routes that parse no body
adminRoute_requireAdmin(r) ==
    /\ req[r].op \in AdminReads \cup {"updateOrderStatus", "deleteProduct"}
    /\ req[r].pc = "findAdmin"
    /\ LET denied == requireAdmin(req[r].user) IN
        req' = [req EXCEPT ![r] =
            IF denied # 0 THEN Answer(req[r].op, denied)
            ELSE [req[r] EXCEPT !.pc = "handler"]]
    /\ UNCHANGED <<dbVars, replay, chatVars, browser>>

\* findMany / count / aggregate: reads only
getAdmin_findMany(r) ==
    /\ req[r].op \in AdminReads /\ req[r].pc = "handler"
    /\ req' = [req EXCEPT ![r] = Answer(req[r].op, 200)]
    /\ UNCHANGED <<dbVars, replay, chatVars, browser>>

\* ------------------------------------------------------------- PUT /admin/orders/:id/status
\* the options of the admin console's status select
StatusOptions == {"pending", "processing", "completed", "cancelled"}

\* req.body.status is whatever the client sends; req.params.id may name no order
StatusBodies ==
    {[NoBody EXCEPT !.id = id, !.status = st] :
        id \in 1..(MaxOrders + 1), st \in {"cancelled", "refunded"}}

putAdminOrderStatus(r, tokens) ==
    /\ Free(r)
    /\ \E token \in tokens, body \in StatusBodies :
        LET denied == authenticateToken(token) IN
        req' = [req EXCEPT ![r] =
            IF denied # 0 THEN Answer("updateOrderStatus", denied)
            ELSE Begin(r, "updateOrderStatus", token, body, "findAdmin")]
    /\ UNCHANGED <<dbVars, replay, chatVars, browser>>

\* mutant of withStatus: the whole body replaces the order's data, the total is lost
withBody(order, status) == [order EXCEPT !.status = status, !.total = 0]

\* data: { status }
withStatus(order, status) == [order EXCEPT !.status = status]

putAdminOrderStatus_update(r) ==
    /\ req[r].op = "updateOrderStatus" /\ req[r].pc = "handler"
    /\ IF req[r].body.id \in 1..Len(orders)
       THEN /\ orders' = [orders EXCEPT ![req[r].body.id] = withStatus(@, req[r].body.status)]
            /\ req' = [req EXCEPT ![r] = Answer(req[r].op, 200)]
       ELSE /\ orders' = orders
            /\ req' = [req EXCEPT ![r] = Answer(req[r].op, 500)]
    /\ UNCHANGED <<users, issued, products, carts, cartItems, nextItemId, messages, replay,
                   chatVars, browser>>

\* ------------------------------------------------------------- DELETE /admin/products/:id
deleteAdminProduct(r, tokens) ==
    /\ Free(r)
    /\ \E token \in tokens, id \in ProductIds \cup OtherProductIds :
        LET denied == authenticateToken(token) IN
        req' = [req EXCEPT ![r] =
            IF denied # 0 THEN Answer("deleteProduct", denied)
            ELSE Begin(r, "deleteProduct", token, [NoBody EXCEPT !.id = id], "findAdmin")]
    /\ UNCHANGED <<dbVars, replay, chatVars, browser>>

\* CartItem.productId and OrderItem.productId reference Product: a product in a cart
\* or in an order is not deleted
productUnreferenced(id) ==
    /\ \A l \in cartItems : l.productId # id
    /\ \A o \in 1..Len(orders) : \A item \in orders[o].items : item.productId # id

deleteAdminProduct_delete(r) ==
    /\ req[r].op = "deleteProduct" /\ req[r].pc = "handler"
    /\ IF req[r].body.id \in DOMAIN products /\ productUnreferenced(req[r].body.id)
       THEN /\ products' = [id \in DOMAIN products \ {req[r].body.id} |-> products[id]]
            /\ req' = [req EXCEPT ![r] = Answer(req[r].op, 200)]
       ELSE /\ products' = products
            /\ req' = [req EXCEPT ![r] = Answer(req[r].op, 500)]
    /\ UNCHANGED <<users, issued, carts, cartItems, nextItemId, orders, messages, replay,
                   chatVars, browser>>

\* ------------------------------------------------------------- POST /admin/make-admin/:userId
\* authenticateToken only: requireAdmin is not in this route's chain
postMakeAdmin(r, tokens) ==
    /\ Free(r)
    /\ \E token \in tokens, userId \in 1..3 :
        LET denied == authenticateToken(token) IN
        req' = [req EXCEPT ![r] =
            IF denied # 0 THEN Answer("makeAdmin", denied)
            ELSE Begin(r, "makeAdmin", token, [NoBody EXCEPT !.userId = userId], "updateUser")]
    /\ UNCHANGED <<dbVars, replay, chatVars, browser>>

postMakeAdmin_update(r) ==
    /\ req[r].op = "makeAdmin" /\ req[r].pc = "updateUser"
    /\ IF req[r].body.userId \in UserIds
       THEN /\ users' = [users EXCEPT ![req[r].body.userId].isAdmin = TRUE]
            /\ req' = [req EXCEPT ![r] = Answer(req[r].op, 200)]
       ELSE /\ users' = users
            /\ req' = [req EXCEPT ![r] = Answer(req[r].op, 500)]
    /\ UNCHANGED <<issued, products, carts, cartItems, nextItemId, orders, messages, replay,
                   chatVars, browser>>

\* ------------------------------------------------------------- POST /auth/register
\* z.string().email(): one "@" with text on both sides
isEmail(s) ==
    /\ Cardinality({i \in 1..Len(s) : s[i] = "@"}) = 1
    /\ Len(s) >= 3 /\ s[1] # "@" /\ s[Len(s)] # "@"

registerSchema(body) ==
    /\ isEmail(body.email)
    /\ Len(body.name) >= 1
    /\ Len(body.password) >= 6

RegisterBodies ==
    {[NoBody EXCEPT !.email = e, !.name = "Ann", !.password = pw] :
        e \in {EmailA, EmailB, NotAnEmail}, pw \in {"secret1", "secret2"}}
    \cup {[NoBody EXCEPT !.email = EmailA, !.name = "", !.password = "secret1"],
          [NoBody EXCEPT !.email = EmailA, !.name = "Ann", !.password = "short"]}

postRegister(r) ==
    /\ Free(r)
    /\ \E body \in RegisterBodies :
        req' = [req EXCEPT ![r] =
            IF ~registerSchema(body) THEN Invalid("register")
            ELSE [Idle EXCEPT !.op = "register", !.pc = "hash", !.body = body]]
    /\ UNCHANGED <<dbVars, replay, chatVars, browser>>

postRegister_hash(r) ==
    /\ req[r].op = "register" /\ req[r].pc = "hash"
    /\ req' = [req EXCEPT ![r] = [req[r] EXCEPT !.pc = "createUser",
                                    !.body.password = hash(req[r].body.password)]]
    /\ UNCHANGED <<dbVars, replay, chatVars, browser>>

\* User.email is unique (findUnique on it, line 96): a second user of one email is refused
emailFree(email) == \A id \in UserIds : users[id].email # email

\* data: { email, name, password: hashedPassword }; isAdmin defaults to false
newUser(body) ==
    [email |-> body.email, name |-> body.name, password |-> body.password, isAdmin |-> FALSE]

postRegister_create(r) ==
    /\ req[r].op = "register" /\ req[r].pc = "createUser"
    /\ IF emailFree(req[r].body.email)
       THEN /\ users' = Append(users, newUser(req[r].body))
            /\ issued' = issued \cup {Sign(Len(users) + 1, req[r].body.email)}
            /\ req' = [req EXCEPT ![r] = [Answer("register", 200) EXCEPT !.user = Len(users) + 1]]
       ELSE /\ UNCHANGED <<users, issued>>
            /\ req' = [req EXCEPT ![r] = Answer("register", 500)]
    /\ UNCHANGED <<products, carts, cartItems, nextItemId, orders, messages, replay, chatVars,
                   browser>>

\* ------------------------------------------------------------- POST /auth/login
loginSchema(body) ==
    /\ isEmail(body.email)
    /\ Len(body.password) >= 1

EmailC == <<"c", "@", "x">>

LoginBodies ==
    {[NoBody EXCEPT !.email = e, !.password = pw] :
        e \in {EmailA, EmailB, EmailC}, pw \in {"secret1", "secret2"}}
    \cup {[NoBody EXCEPT !.email = NotAnEmail, !.password = "secret1"],
          [NoBody EXCEPT !.email = EmailA, !.password = ""]}

postLogin(r) ==
    /\ Free(r)
    /\ \E body \in LoginBodies :
        req' = [req EXCEPT ![r] =
            IF ~loginSchema(body) THEN Invalid("login")
            ELSE [Idle EXCEPT !.op = "login", !.pc = "findUser", !.body = body]]
    /\ UNCHANGED <<dbVars, replay, chatVars, browser>>

\* prisma.user.findUnique({ where: { email } }): the user's id, 0 for null
findUser(email) ==
    IF \E id \in UserIds : users[id].email = email
    THEN CHOOSE id \in UserIds : users[id].email = email
    ELSE 0

\* if (!user || !user.password || ...): answered before bcrypt.compare is awaited
postLogin_findUnique(r) ==
    /\ req[r].op = "login" /\ req[r].pc = "findUser"
    /\ LET user == findUser(req[r].body.email) IN
        req' = [req EXCEPT ![r] =
            IF user = 0 \/ users[user].password = <<>> THEN Answer("login", 401)
            ELSE [req[r] EXCEPT !.pc = "compare", !.user = user,
                                !.isAdmin = users[user].isAdmin]]
    /\ UNCHANGED <<dbVars, replay, chatVars, browser>>

\* mutant of compare: the promise is not awaited, so every password passes
compareNotAwaited(password, hashed) == TRUE

\* bcrypt.compare(password, user.password)
compare(password, hashed) == hash(password) = hashed

postLogin_compare(r) ==
    /\ req[r].op = "login" /\ req[r].pc = "compare"
    /\ LET user == req[r].user
           token == Sign(user, users[user].email)
       IN IF compare(req[r].body.password, users[user].password)
          THEN /\ issued' = issued \cup {token}
               /\ req' = [req EXCEPT ![r] = [Answer("login", 200) EXCEPT
                            !.user = user, !.isAdmin = req[r].isAdmin, !.token = token]]
          ELSE /\ issued' = issued
               /\ req' = [req EXCEPT ![r] = Answer("login", 401)]
    /\ UNCHANGED <<users, products, carts, cartItems, nextItemId, orders, messages, replay,
                   chatVars, browser>>

\* ------------------------------------------------------------- GET /cart
getCart(r, tokens) ==
    /\ Free(r)
    /\ \E token \in tokens :
        LET denied == authenticateToken(token) IN
        req' = [req EXCEPT ![r] =
            IF denied # 0 THEN Answer("getCart", denied)
            ELSE Begin(r, "getCart", token, [NoBody EXCEPT !.email = token.email], "findCart")]
    /\ UNCHANGED <<dbVars, replay, chatVars, browser>>

\* res.json(cart || { items: [] }): answered for the cart of req.user.id
getCart_findUnique(r) ==
    /\ req[r].op = "getCart" /\ req[r].pc = "findCart"
    /\ req' = [req EXCEPT ![r] = [Answer("getCart", 200) EXCEPT
                    !.user = req[r].user, !.cart = findCart(req[r].user)]]
    /\ UNCHANGED <<dbVars, replay, chatVars, browser>>

\* ------------------------------------------------------------- GET /orders
getOrders(r, tokens) ==
    /\ Free(r)
    /\ \E token \in tokens :
        LET denied == authenticateToken(token) IN
        req' = [req EXCEPT ![r] =
            IF denied # 0 THEN Answer("getOrders", denied)
            ELSE Begin(r, "getOrders", token, NoBody, "findOrders")]
    /\ UNCHANGED <<dbVars, replay, chatVars, browser>>

\* mutant of ordersOf: the listing has no where clause
ordersOfAll(userId) == DOMAIN orders

\* prisma.order.findMany({ where: { userId: req.user.id } }): the orders' ids
ordersOf(userId) == {i \in DOMAIN orders : orders[i].userId = userId}

getOrders_findMany(r) ==
    /\ req[r].op = "getOrders" /\ req[r].pc = "findOrders"
    /\ req' = [req EXCEPT ![r] = [Answer("getOrders", 200) EXCEPT
                    !.user = req[r].user, !.listed = ordersOf(req[r].user)]]
    /\ UNCHANGED <<dbVars, replay, chatVars, browser>>

\* ------------------------------------------------------------- chat relay
connection(s) ==
    /\ sockets[s] = "new"
    /\ \A t \in SocketIds : t < s => sockets[t] # "new"
    /\ sockets' = [sockets EXCEPT ![s] = "open"]
    /\ UNCHANGED <<dbVars, replay, req, joined, delivered, browser>>

\* socket.on('join', (userId) => socket.join(userId)): userId is whatever the client sends
join(s) ==
    /\ sockets[s] = "open"
    /\ \E userId \in 1..2 :
        /\ userId \notin joined[s]
        /\ joined' = [joined EXCEPT ![s] = @ \cup {userId}]
    /\ UNCHANGED <<dbVars, replay, req, sockets, delivered, browser>>

\* a disconnected socket has left every room
disconnect(s) ==
    /\ sockets[s] = "open"
    /\ sockets' = [sockets EXCEPT ![s] = "closed"]
    /\ joined' = [joined EXCEPT ![s] = {}]
    /\ UNCHANGED <<dbVars, replay, req, delivered, browser>>

\* Socket.IO puts every socket in a room named by its own id; rooms of socket ids are
\* written as negative numbers, rooms of user ids as the user id.
ownRoom(s) == 0 - s
inRoom(s, room) == room \in joined[s] \/ room = ownRoom(s)

\* sendMessage data: userId and recipientId are whatever the client sends; 0 is absent
MessageData ==
    {[NoBody EXCEPT !.userId = u, !.recipientId = t] :
        u \in {1, 3}, t \in {0, 1, ownRoom(1)}}

onSendMessage(r) ==
    /\ Free(r)
    /\ Len(messages) < MaxMessages
    /\ \E s \in SocketIds, data \in MessageData :
        /\ sockets[s] = "open"
        /\ req' = [req EXCEPT ![r] = [Idle EXCEPT !.op = "sendMessage", !.pc = "createMessage",
                                        !.socket = s, !.body = data]]
    /\ UNCHANGED <<dbVars, replay, chatVars, browser>>

\* Message.userId references User
authorExists(userId) == userId \in UserIds

\* mutant of audience: a broadcast skips the sending socket (socket.broadcast.emit)
audienceButSender(recipientId, sender) ==
    IF recipientId # 0
    THEN {s \in SocketIds : sockets[s] = "open" /\ inRoom(s, recipientId)}
    ELSE {s \in SocketIds : sockets[s] = "open" /\ s # sender}

\* mutant of audience: a directed message also goes back to the sending socket
audienceAndSender(recipientId, sender) ==
    IF recipientId # 0
    THEN {s \in SocketIds : sockets[s] = "open" /\ (inRoom(s, recipientId) \/ s = sender)}
    ELSE {s \in SocketIds : sockets[s] = "open"}

\* mutant of audience: a broadcast is also kept for the sockets that connect later
audienceWithLater(recipientId, sender) ==
    IF recipientId # 0
    THEN {s \in SocketIds : sockets[s] = "open" /\ inRoom(s, recipientId)}
    ELSE {s \in SocketIds : sockets[s] # "closed"}

\* if (recipientId) io.to(recipientId).emit(...) else io.emit(...)
audience(recipientId, sender) ==
    IF recipientId # 0
    THEN {s \in SocketIds : sockets[s] = "open" /\ inRoom(s, recipientId)}
    ELSE {s \in SocketIds : sockets[s] = "open"}

\* mutant of created: the event carries the row before the one just created
createdStale(table) == Len(table)

\* const message = await prisma.message.create(...): the id of the created row
created(table) == Len(table) + 1

onSendMessage_create(r) ==
    /\ req[r].op = "sendMessage" /\ req[r].pc = "createMessage"
    /\ IF authorExists(req[r].body.userId)
       THEN /\ Len(messages) < MaxMessages
            /\ messages' = Append(messages, [userId |-> req[r].body.userId, content |-> "hi"])
            /\ delivered' = [s \in SocketIds |->
                    IF s \in audience(req[r].body.recipientId, req[r].socket)
                    THEN Append(delivered[s], created(messages))
                    ELSE delivered[s]]
            /\ req' = [req EXCEPT ![r] =
                    [Answer("sendMessage", 200) EXCEPT !.socket = req[r].socket]]
       ELSE /\ UNCHANGED <<messages, delivered>>
            /\ req' = [req EXCEPT ![r] = Answer("sendMessage", 500)]
    /\ UNCHANGED <<users, issued, products, carts, cartItems, nextItemId, orders, replay,
                   sockets, joined, browser>>

\* ------------------------------------------------------------- admin login page
\* what POST /auth/login answers to the body, its three steps taken at once
loginAnswer(body) ==
    LET user == findUser(body.email) IN
    IF ~loginSchema(body) THEN [NoResponse EXCEPT !.status = 400, !.error = "Invalid input"]
    ELSE IF user = 0 \/ users[user].password = <<>>
            \/ ~compare(body.password, users[user].password)
    THEN [NoResponse EXCEPT !.status = 401, !.error = "Invalid credentials"]
    ELSE [ok |-> TRUE, status |-> 200, error |-> "", token |-> Sign(user, users[user].email),
          user |-> [id |-> user, isAdmin |-> users[user].isAdmin]]

\* fetch rejects (no response), or resolves with the server's answer, with its 500, or
\* with an error status whose body names no error
NetworkError == [NoResponse EXCEPT !.status = -1]
LoginResponses(body) ==
    {NetworkError, loginAnswer(body),
     [NoResponse EXCEPT !.status = 500, !.error = "Failed to login"],
     [NoResponse EXCEPT !.status = 502]}

\* setLoading(true); setError(''); await fetch('/auth/login', { body: { email, password } })
handleLogin ==
    /\ browser.location = "/admin-login" /\ browser.pc = "idle"
    /\ \E body \in LoginBodies :
        browser' = [browser EXCEPT !.pc = "login", !.loading = TRUE, !.error = "",
                                   !.body = body, !.res = NoResponse]
    /\ UNCHANGED <<dbVars, replay, chatVars, req>>

\* mutant of grantsAccess: the admin flag of the returned user is not looked at
grantsAccessToAll(res) == res.ok

\* res.ok && data.user.isAdmin
grantsAccess(res) == res.ok /\ res.user.isAdmin

\* the fetch settles: the if / else if / else, the catch and the finally
handleLogin_response ==
    /\ browser.pc = "login"
    /\ \E res \in LoginResponses(browser.body) :
        browser' =
            IF res = NetworkError
            THEN [browser EXCEPT !.pc = "idle", !.loading = FALSE, !.res = res,
                                 !.error = "Network error. Please try again."]
            ELSE IF grantsAccess(res)
            THEN [browser EXCEPT !.pc = "mount", !.loading = FALSE, !.res = res,
                                 !.token = res.token, !.user = res.user,
                                 !.location = "/admin"]
            ELSE IF res.ok
            THEN [browser EXCEPT !.pc = "idle", !.loading = FALSE, !.res = res,
                                 !.error = "Access denied. Admin privileges required."]
            ELSE [browser EXCEPT !.pc = "idle", !.loading = FALSE, !.res = res,
                                 !.error = IF res.error # "" THEN res.error
                                           ELSE "Login failed"]
    /\ UNCHANGED <<dbVars, replay, chatVars, req>>

\* ------------------------------------------------------------- admin console
\* the bearer tokens of the requests fetchData sends: users, orders, stats
fetchData(token) == <<token, token, token>>

\* the mount effect, run once after the first render: in that render the state
\* `token` is its initial '' (NoToken), and setToken takes effect in the next one,
\* so the fetchData called from the effect is the first render's, closed over ''
Admin_useEffect ==
    /\ browser.location = "/admin" /\ browser.pc = "mount"
    /\ LET storedToken == browser.token
           storedUser == browser.user
           token == browser.stateToken
       IN browser' =
            IF storedToken # NoToken /\ storedUser # NoUser
            THEN IF ~storedUser.isAdmin
                 THEN [browser EXCEPT !.pc = "idle", !.stateToken = storedToken,
                                      !.location = "/admin-login"]
                 ELSE [browser EXCEPT !.pc = "loaded", !.stateToken = storedToken,
                                      !.sent = fetchData(token)]
            ELSE [browser EXCEPT !.pc = "idle", !.location = "/admin-login"]
    /\ UNCHANGED <<dbVars, replay, chatVars, req>>

\* the person opens /admin by its address
openAdmin ==
    /\ browser.location = "/admin-login" /\ browser.pc = "idle"
    /\ browser' = [browser EXCEPT !.pc = "mount", !.location = "/admin"]
    /\ UNCHANGED <<dbVars, replay, chatVars, req>>

\* the person goes back to the login page: the console unmounts, its state is lost
openAdminLogin ==
    /\ browser.location = "/admin" /\ browser.pc = "loaded"
    /\ browser' = [browser EXCEPT !.pc = "idle", !.location = "/admin-login",
                                  !.stateToken = NoToken, !.sent = <<>>]
    /\ UNCHANGED <<dbVars, replay, chatVars, req>>

\* ------------------------------------------------------------- failures
\* The awaited database call of an in-flight handler rejects: its catch block
\* answers 500 and nothing is undone.
persistenceFailure(r) ==
    /\ InFlight(r)
    /\ req' = [req EXCEPT ![r] = [Answer(req[r].op, 500) EXCEPT !.fault = TRUE]]
    /\ UNCHANGED <<dbVars, replay, chatVars, browser>>

\* The process dies: in-flight handlers never resume, the database stays as it is.
crash ==
    /\ \E r \in Slots : InFlight(r)
    /\ req' = [r \in Slots |->
                IF InFlight(r) THEN [Idle EXCEPT !.op = req[r].op, !.pc = "crashed"] ELSE req[r]]
    /\ sockets' = [s \in SocketIds |-> IF sockets[s] = "open" THEN "closed" ELSE sockets[s]]
    /\ joined' = [s \in SocketIds |-> {}]
    /\ UNCHANGED <<dbVars, replay, delivered, browser>>

\* ------------------------------------------------------------- specifications
Ann == [email |-> EmailA, name |-> "Ann", password |-> hash("secret1"), isAdmin |-> TRUE]
Bob == [email |-> EmailB, name |-> "Bob", password |-> hash("secret2"), isAdmin |-> FALSE]
Widget == [name |-> "Widget", price |-> 1, stock |-> 1]

\* A shop in use: two registered users (one made admin), two products, nothing bought yet.
InitShop ==
    /\ users = <<Ann, Bob>>
    /\ issued = {Sign(1, EmailA), Sign(2, EmailB)}
    /\ products = [p \in ProductIds |-> Widget]
    /\ carts = <<>>
    /\ cartItems = {}
    /\ nextItemId = 1
    /\ orders = <<>>
    /\ messages = <<>>
    /\ sockets = [s \in SocketIds |-> "new"]
    /\ joined = [s \in SocketIds |-> {}]
    /\ delivered = [s \in SocketIds |-> <<>>]
    /\ req = [r \in Slots |-> Idle]
    /\ replay = [u \in 1..2 |-> [p \in ProductIds |-> 0]]
    /\ browser = NoBrowser

ShopperTokens == {Sign(2, EmailB)} \cup BadTokens

NextCart ==
    \E r \in Slots :
        \/ postCart(r, ShopperTokens, CartBodies)
        \/ postCart_findUnique(r)
        \/ postCart_cartCreate(r)
        \/ postCart_findFirst(r)
        \/ postCart_update(r)
        \/ postCart_create(r)
        \/ deleteCart(r, ShopperTokens)
        \/ deleteCart_findUnique(r)
        \/ deleteCart_deleteMany(r)
        \/ putAdminProduct(r, Tokens, ProductBodies)
        \/ putAdminProduct_requireAdmin(r)
        \/ putAdminProduct_update(r)
        \/ persistenceFailure(r)

SpecCart == InitShop /\ [][NextCart]_vars

\* the carts and price changes that orders are made from
OrderCartBodies ==
    {[NoBody EXCEPT !.productId = p, !.quantity = 2] : p \in ProductIds}

OrderProductBodies ==
    {GoodProduct(1, p) : p \in Prices} \cup {[GoodProduct(1, 1) EXCEPT !.price = 0]}

NextOrder ==
    \/ \E r \in Slots :
        \/ postCart(r, {Sign(2, EmailB)}, OrderCartBodies)
        \/ postCart_findUnique(r)
        \/ postCart_cartCreate(r)
        \/ postCart_findFirst(r)
        \/ postCart_update(r)
        \/ postCart_create(r)
        \/ postOrders(r, ShopperTokens)
        \/ postOrders_findUnique(r)
        \/ postOrders_orderCreate(r)
        \/ postOrders_deleteMany(r)
        \/ putAdminProduct(r, issued, OrderProductBodies)
        \/ putAdminProduct_requireAdmin(r)
        \/ putAdminProduct_update(r)
        \/ persistenceFailure(r)
    \/ crash

SpecOrder == InitShop /\ [][NextOrder]_vars

\* The server just deployed: an empty database.
InitEmpty ==
    /\ users = <<>>
    /\ issued = {}
    /\ products = <<>>
    /\ carts = <<>>
    /\ cartItems = {}
    /\ nextItemId = 1
    /\ orders = <<>>
    /\ messages = <<>>
    /\ sockets = [s \in SocketIds |-> "new"]
    /\ joined = [s \in SocketIds |-> {}]
    /\ delivered = [s \in SocketIds |-> <<>>]
    /\ req = [r \in Slots |-> Idle]
    /\ replay = [u \in 1..2 |-> [p \in ProductIds |-> 0]]
    /\ browser = NoBrowser

NextAuth ==
    \/ \E r \in Slots :
        \/ postRegister(r)
        \/ postRegister_hash(r)
        \/ postRegister_create(r)
        \/ getCart(r, Tokens)
        \/ getCart_findUnique(r)
        \/ persistenceFailure(r)
    \/ crash

SpecAuth == InitEmpty /\ [][NextAuth]_vars

NextChat ==
    \/ \E s \in SocketIds :
        \/ connection(s)
        \/ join(s)
        \/ disconnect(s)
    \/ \E r \in Slots :
        \/ onSendMessage(r)
        \/ onSendMessage_create(r)
        \/ persistenceFailure(r)

SpecChat == InitShop /\ [][NextChat]_vars

\* The shop after Bob has bought one Widget: his cart is empty again, his order stored.
InitOrdered ==
    /\ users = <<Ann, Bob>>
    /\ issued = {Sign(1, EmailA), Sign(2, EmailB)}
    /\ products = [p \in ProductIds |-> Widget]
    /\ carts = <<2>>
    /\ cartItems = {}
    /\ nextItemId = 2
    /\ orders = <<newOrder(2, {[id |-> 1, productId |-> 1, quantity |-> 1, price |-> 1]})>>
    /\ messages = <<>>
    /\ sockets = [s \in SocketIds |-> "new"]
    /\ joined = [s \in SocketIds |-> {}]
    /\ delivered = [s \in SocketIds |-> <<>>]
    /\ req = [r \in Slots |-> Idle]
    /\ replay = [u \in 1..2 |-> [p \in ProductIds |-> 0]]
    /\ browser = NoBrowser

AdminProductBodies ==
    {GoodProduct(i, p) : i \in {1, 3}, p \in Prices} \cup {[GoodProduct(1, 1) EXCEPT !.price = 0]}

NextAdmin ==
    \E r \in Slots :
        \/ postLogin(r)
        \/ postLogin_findUnique(r)
        \/ postLogin_compare(r)
        \/ postMakeAdmin(r, Tokens)
        \/ postMakeAdmin_update(r)
        \/ getAdmin(r, Tokens)
        \/ adminRoute_requireAdmin(r)
        \/ getAdmin_findMany(r)
        \/ putAdminOrderStatus(r, Tokens)
        \/ putAdminOrderStatus_update(r)
        \/ putAdminProduct(r, Tokens, AdminProductBodies)
        \/ putAdminProduct_requireAdmin(r)
        \/ putAdminProduct_update(r)
        \/ deleteAdminProduct(r, Tokens)
        \/ deleteAdminProduct_delete(r)
        \/ persistenceFailure(r)

SpecAdmin == InitOrdered /\ [][NextAdmin]_vars

\* orders placed and then administered: the status and the stock
StatusCartBodies == {[NoBody EXCEPT !.productId = 1, !.quantity = 2]}

StockBodies == {[GoodProduct(1, 1) EXCEPT !.stock = st] : st \in {0, 2}}

NextStatus ==
    \E r \in Slots :
        \/ postCart(r, {Sign(2, EmailB)}, StatusCartBodies)
        \/ postCart_findUnique(r)
        \/ postCart_cartCreate(r)
        \/ postCart_findFirst(r)
        \/ postCart_update(r)
        \/ postCart_create(r)
        \/ deleteCart(r, {Sign(2, EmailB)})
        \/ deleteCart_findUnique(r)
        \/ deleteCart_deleteMany(r)
        \/ postOrders(r, {Sign(2, EmailB)})
        \/ postOrders_findUnique(r)
        \/ postOrders_orderCreate(r)
        \/ postOrders_deleteMany(r)
        \/ putAdminOrderStatus(r, issued)
        \/ adminRoute_requireAdmin(r)
        \/ putAdminOrderStatus_update(r)
        \/ putAdminProduct(r, issued, StockBodies)
        \/ putAdminProduct_requireAdmin(r)
        \/ putAdminProduct_update(r)
        \/ persistenceFailure(r)

SpecStatus == InitShop /\ [][NextStatus]_vars

\* bodies sent to the routes that parse one, well-formed and not
ValidatedCartBodies ==
    {[NoBody EXCEPT !.productId = 1, !.quantity = q] : q \in {-2, 0, 1, 2}}
    \cup {[NoBody EXCEPT !.productId = 0, !.quantity = 2]}

ValidatedProductBodies ==
    {GoodProduct(1, 2), [GoodProduct(1, 1) EXCEPT !.name = ""],
     [GoodProduct(1, 1) EXCEPT !.price = 0], [GoodProduct(1, 1) EXCEPT !.stock = -1]}

NextValidation ==
    \E r \in Slots :
        \/ postRegister(r)
        \/ postRegister_hash(r)
        \/ postRegister_create(r)
        \/ postLogin(r)
        \/ postLogin_findUnique(r)
        \/ postLogin_compare(r)
        \/ postProducts(r, ValidatedProductBodies)
        \/ postProducts_create(r)
        \/ putAdminProduct(r, Tokens, ValidatedProductBodies)
        \/ putAdminProduct_requireAdmin(r)
        \/ putAdminProduct_update(r)
        \/ postCart(r, ShopperTokens, ValidatedCartBodies)
        \/ postCart_findUnique(r)
        \/ postCart_cartCreate(r)
        \/ postCart_findFirst(r)
        \/ postCart_update(r)
        \/ postCart_create(r)
        \/ persistenceFailure(r)

SpecValidation == InitShop /\ [][NextValidation]_vars

\* the admin app in the browser, while accounts are made admin on the server
NextAdminApp ==
    \/ handleLogin
    \/ handleLogin_response
    \/ Admin_useEffect
    \/ openAdmin
    \/ openAdminLogin
    \/ \E r \in Slots :
        \/ postMakeAdmin(r, issued)
        \/ postMakeAdmin_update(r)

SpecAdminApp == InitShop /\ [][NextAdminApp]_vars

\* ------------------------------------------------------------- web client: chat
\* The effect of a signed-in session: fetchMessages() is called (its request leaves) and
\* a socket is made with the newMessage handler on it; the server accepts the socket in
\* connection(s).  The rooms joined play no part: the web client sends no recipientId.
Home_useEffect ==
    /\ browser.pc = "idle" /\ browser.socket = 0
    /\ \E s \in SocketIds :
        /\ sockets[s] = "new" /\ \A t \in SocketIds : t < s => sockets[t] # "new"
        /\ browser' = [browser EXCEPT !.location = "/", !.pc = "fetchMessages", !.socket = s]
    /\ UNCHANGED <<dbVars, replay, chatVars, req>>

\* app.get('/messages'): prisma.message.findMany, the rows there are when it runs
getMessages ==
    /\ browser.pc = "fetchMessages"
    /\ browser' = [browser EXCEPT !.pc = "setMessages",
                                  !.history = [i \in DOMAIN messages |-> i]]
    /\ UNCHANGED <<dbVars, replay, chatVars, req>>

\* const data = await res.json(); setMessages(data)
fetchMessages ==
    /\ browser.pc = "setMessages"
    /\ browser' = [browser EXCEPT !.pc = "home", !.messages = browser.history]
    /\ UNCHANGED <<dbVars, replay, chatVars, req>>

\* newSocket.on('newMessage', message => setMessages(prev => [...prev, message]))
onNewMessage ==
    /\ browser.socket # 0
    /\ browser.seen < Len(delivered[browser.socket])
    /\ browser' = [browser EXCEPT !.seen = @ + 1,
                        !.messages = Append(@, delivered[browser.socket][browser.seen + 1])]
    /\ UNCHANGED <<dbVars, replay, chatVars, req>>

NextWeb ==
    \/ Home_useEffect
    \/ getMessages
    \/ fetchMessages
    \/ onNewMessage
    \/ \E s \in SocketIds :
        \/ connection(s)
        \/ disconnect(s)
    \/ \E r \in Slots :
        \/ onSendMessage(r)
        \/ onSendMessage_create(r)
        \/ persistenceFailure(r)

SpecWeb == InitShop /\ [][NextWeb]_vars

\* Ann and Bob both shop: their carts, orders and listings
ShopBodies == {[NoBody EXCEPT !.productId = 1, !.quantity = 2]}

NextShop ==
    \E r \in Slots :
        \/ postCart(r, issued, ShopBodies)
        \/ postCart_findUnique(r)
        \/ postCart_cartCreate(r)
        \/ postCart_findFirst(r)
        \/ postCart_update(r)
        \/ postCart_create(r)
        \/ deleteCart(r, issued)
        \/ deleteCart_findUnique(r)
        \/ deleteCart_deleteMany(r)
        \/ postOrders(r, issued)
        \/ postOrders_findUnique(r)
        \/ postOrders_orderCreate(r)
        \/ postOrders_deleteMany(r)
        \/ getCart(r, issued)
        \/ getCart_findUnique(r)
        \/ getOrders(r, issued)
        \/ getOrders_findMany(r)
        \/ persistenceFailure(r)

SpecShop == InitShop /\ [][NextShop]_vars

\* Two requests in flight at once: the handlers interleave at their awaits.
RaceSlots == {1, 2}

InitRace ==
    /\ users = <<Ann, Bob>>
    /\ issued = {Sign(1, EmailA), Sign(2, EmailB)}
    /\ products = [p \in ProductIds |-> Widget]
    /\ carts = <<>>
    /\ cartItems = {}
    /\ nextItemId = 1
    /\ orders = <<>>
    /\ messages = <<>>
    /\ sockets = [s \in SocketIds |-> "new"]
    /\ joined = [s \in SocketIds |-> {}]
    /\ delivered = [s \in SocketIds |-> <<>>]
    /\ req = [r \in RaceSlots |-> Idle]
    /\ replay = [u \in 1..2 |-> [p \in ProductIds |-> 0]]
    /\ browser = NoBrowser

RaceCartBodies == {[NoBody EXCEPT !.productId = 1, !.quantity = 2]}

NextRace ==
    \E r \in RaceSlots :
        \/ postCart(r, issued, RaceCartBodies)
        \/ postCart_findUnique(r)
        \/ postCart_cartCreate(r)
        \/ postCart_findFirst(r)
        \/ postCart_update(r)
        \/ postCart_create(r)
        \/ persistenceFailure(r)

SpecRace == InitRace /\ [][NextRace]_vars

\* Bob's requests to add to his cart and to order it, two in flight at once
NextOrderRace ==
    \E r \in RaceSlots :
        \/ postCart(r, {Sign(2, EmailB)}, RaceCartBodies)
        \/ postCart_findUnique(r)
        \/ postCart_cartCreate(r)
        \/ postCart_findFirst(r)
        \/ postCart_update(r)
        \/ postCart_create(r)
        \/ postOrders(r, {Sign(2, EmailB)})
        \/ postOrders_findUnique(r)
        \/ postOrders_orderCreate(r)
        \/ postOrders_deleteMany(r)
        \/ persistenceFailure(r)

SpecOrderRace == InitRace /\ [][NextOrderRace]_vars

\* ------------------------------------------------------------- admin orders tab
\* GET /admin/orders returns each item with its product joined (include: { product: true });
\* the orders tab prints  item.product.price * item.quantity  for each item.
adminItemAmount(item) == products[item.productId].price * item.quantity

\* ------------------------------------------------------------- claims
\* the sum of product price x quantity over the lines now in the user's cart
RECURSIVE LinesSum(_)
LinesSum(lines) ==
    IF lines = {} THEN 0
    ELSE LET l == CHOOSE x \in lines : TRUE
         IN products[l.productId].price * l.quantity + LinesSum(lines \ {l})

CartSum(userId) == LinesSum(LinesOf(findCart(userId)))

Ends(r) == InFlight(r) /\ Free(r)'
Succeeds(r, op) == req[r].op = op /\ InFlight(r) /\ req'[r].pc = "done" /\ req'[r].status = 200

\* C1: createOrder is atomic.  Whenever a createOrder handler ends, answered or
\* killed by a crash or a failed persistence step, it is not the case that the order
\* it created is persisted while cart lines it was made from are still present, nor
\* that lines it read are gone while no order was persisted.
C1_CreateOrderAtomic ==
    [][\A r \in Slots :
        req[r].op = "createOrder" /\ Ends(r) =>
            LET persisted == req[r].order # 0 /\ req[r].order <= Len(orders')
                present == {i \in req[r].items : \E l \in cartItems' : l.id = i.id}
            IN /\ ~(persisted /\ present # {})
               /\ ~(~persisted /\ present # req[r].items)]_vars

\* C2: a successful createOrder on a non-empty cart leaves the cart with no line
\* and has persisted exactly one new order, owned by the caller, whose total is the
\* sum of price x quantity over the cart lines as they were before the call (the
\* lines the handler read are still the cart's lines when it clears them).
C2_OrderEmptiesCartAndTotals ==
    [][\A r \in Slots :
        /\ Len(orders') # Len(orders) =>
                /\ Len(orders') = Len(orders) + 1
                /\ \E q \in Slots : req[q].op = "createOrder" /\ req[q].pc = "createOrder"
                                    /\ req'[q].order = Len(orders')
        /\ Succeeds(r, "createOrder") =>
            LET cart == findCart(req[r].user) IN
                /\ LinesOf(cart) # {}
                /\ req[r].items = includeItems(cart)
                /\ LinesOf(cart)' = {}
                /\ req[r].order = Len(orders) /\ orders' = orders
                /\ orders[req[r].order].userId = req[r].user
                /\ orders[req[r].order].total = CartSum(req[r].user)]_vars

C2_Witness ==
    /\ req[1].op = "createOrder" /\ req[1].pc = "done" /\ req[1].status = 200
    /\ Len(orders) = 1 /\ Cardinality(orders[1].items) = 2 /\ orders[1].total = 3
    /\ LinesOf(findCart(2)) = {}

\* C3: createOrder by a user with no cart, or with a cart without lines, answers
\* 400 (cart is empty) and leaves orders, order items, carts and cart lines as they
\* were (provided the cart lookup itself does not fail).
C3_EmptyCartRejected ==
    [][\A r \in Slots :
        /\ req[r].op = "createOrder" /\ req[r].pc = "findCart"
        /\ LinesOf(findCart(req[r].user)) = {}
        /\ req'[r] # req[r]
        /\ ~(req'[r].pc = "crashed" \/ req'[r].fault)
        => /\ req'[r].pc = "done" /\ req'[r].status = 400
           /\ orders' = orders /\ carts' = carts /\ cartItems' = cartItems]_vars

C3_Witness ==
    /\ req[1].op = "createOrder" /\ req[1].pc = "done" /\ req[1].status = 400
    /\ findCart(2) # 0 /\ LinesOf(findCart(2)) = {}
    /\ Len(orders) = 1

\* C4: the lines of each user's cart are those of the add/remove calls replayed
\* (adds summing quantities per product, removes deleting the product's line), and
\* the cart's total is the sum of current price x quantity over them.
C4_CartTotalMatchesReplay ==
    \A u \in UserIds :
        /\ \A p \in ProductIds :
            /\ Cardinality(existingItems(findCart(u), p)) <= 1
            /\ LineQty(u, p) = replay[u][p]
        /\ total(includeItems(findCart(u))) =
              products[1].price * replay[u][1] + products[2].price * replay[u][2]

C4_Witness ==
    /\ Free(1)
    /\ replay[2][1] = 2 /\ replay[2][2] = 0 /\ nextItemId = 3
    /\ products[1].price = 2

\* C5: once an order exists, the amounts reported for its items are those of the
\* prices captured when it was created, whatever updateProduct did since.
C5_ReportedPricesFrozen ==
    \A o \in 1..Len(orders) : \A item \in orders[o].items :
        adminItemAmount(item) = item.price * item.quantity

\* C10: a successful addToCart adds qty to the product's existing line and creates
\* none, or, without such a line, inserts one line with quantity qty; a cart never
\* holds two lines of one product.
C10_AddMergesOrInserts ==
    /\ [][\A r \in Slots :
            Succeeds(r, "addToCart") =>
                LET cart == findCart(req[r].user)
                    qty == req[r].body.quantity \div 2
                    old == {l \in cartItems :
                                l.cartId = cart /\ l.productId = req[r].body.productId}
                IN IF old # {}
                   THEN \E l \in old :
                        cartItems' = (cartItems \ {l}) \cup
                                        {[l EXCEPT !.quantity = l.quantity + qty]}
                   ELSE \E n \in cartItems' :
                        /\ n \notin cartItems /\ cartItems' = cartItems \cup {n}
                        /\ n.cartId = cart /\ n.productId = req[r].body.productId
                        /\ n.quantity = qty]_vars
    /\ [](\A l \in cartItems, m \in cartItems :
            l.cartId = m.cartId /\ l.productId = m.productId => l = m)

C10_Witness ==
    /\ req[1].op = "addToCart" /\ req[1].pc = "done" /\ req[1].status = 200
    /\ \E l \in cartItems : l.productId = 1 /\ l.quantity = 3 /\ l.id = 1
    /\ \E l \in cartItems : l.productId = 2 /\ l.id = 2
    /\ nextItemId = 3

\* C6: register with an email a stored user already has answers Conflict (409),
\* creates no user and issues no token; no two users share an email.
C6_DuplicateEmailConflict ==
    /\ [][\A r \in Slots :
            /\ req[r].op = "register" /\ req[r].pc = "createUser"
            /\ ~emailFree(req[r].body.email)
            /\ req'[r] # req[r]
            /\ ~(req'[r].pc = "crashed" \/ req'[r].fault)
            => /\ req'[r].pc = "done" /\ req'[r].status = 409
               /\ users' = users /\ issued' = issued]_vars
    /\ [](\A i \in UserIds, j \in UserIds : users[i].email = users[j].email => i = j)

\* C7: register with a valid email no user has succeeds (unless persistence fails)
\* and stores the user; every token register has returned passes authenticateToken
\* and names a stored user with the token's email, and a request that entered a
\* token-protected route is served as the user a returned token names.
C7_RegisterYieldsUsableToken ==
    /\ [][\A r \in Slots :
            /\ req[r].op = "register" /\ req[r].pc = "createUser"
            /\ emailFree(req[r].body.email)
            /\ req'[r] # req[r]
            /\ ~(req'[r].pc = "crashed" \/ req'[r].fault)
            => /\ req'[r].pc = "done" /\ req'[r].status = 200
               /\ Len(users') = Len(users) + 1
               /\ users'[Len(users')].email = req[r].body.email
               /\ \E t \in issued' \ issued :
                    t.id = Len(users') /\ t.email = req[r].body.email]_vars
    /\ [](\A t \in issued :
            /\ authenticateToken(t) = 0
            /\ t.id \in UserIds /\ users[t.id].email = t.email)
    /\ [](\A r \in Slots :
            req[r].op = "getCart" /\ req[r].pc = "findCart" =>
                /\ req[r].user \in UserIds
                /\ users[req[r].user].email = req[r].body.email)

C7_Witness ==
    /\ Len(users) = 2 /\ users[2].email = EmailA
    /\ req[1].op = "getCart" /\ req[1].pc = "done" /\ req[1].status = 200
    /\ req[1].user = 2

\* C8: when a send event without recipient is processed and its message persisted,
\* every socket connected at that moment, the sender's included, is emitted exactly
\* that message's newMessage event (and no other socket is).
C8_BroadcastReachesAll ==
    [][\A r \in Slots :
        /\ req[r].op = "sendMessage" /\ req[r].pc = "createMessage"
        /\ req[r].body.recipientId = 0
        /\ Len(messages') = Len(messages) + 1
        => \A s \in SocketIds :
            delivered'[s] = IF sockets[s] = "open"
                            THEN Append(delivered[s], Len(messages'))
                            ELSE delivered[s]]_vars

C8_Witness ==
    /\ req[1].op = "sendMessage" /\ req[1].pc = "done" /\ req[1].status = 200
    /\ Len(messages) = 1
    /\ \A s \in 1..2 : sockets[s] = "open" /\ joined[s] = {} /\ delivered[s] = <<1>>

\* C9: when a send event names a recipient user, its newMessage event is emitted
\* only to connected sockets that joined that user's room; no other socket, the
\* sender's included, is emitted anything.
C9_DirectedOnlyToGroup ==
    [][\A r \in Slots :
        /\ req[r].op = "sendMessage" /\ req[r].pc = "createMessage"
        /\ req[r].body.recipientId > 0
        => \A s \in SocketIds :
            delivered'[s] # delivered[s] =>
                /\ sockets[s] = "open"
                /\ req[r].body.recipientId \in joined[s]
                /\ delivered'[s] = Append(delivered[s], Len(messages'))]_vars

C9_Witness ==
    /\ req[1].op = "sendMessage" /\ req[1].pc = "done" /\ req[1].status = 200
    /\ req[1].socket = 1
    /\ Len(messages) = 1
    /\ sockets[1] = "open" /\ joined[1] = {2} /\ delivered[1] = <<>>
    /\ sockets[2] = "open" /\ joined[2] = {1} /\ delivered[2] = <<1>>

\* C11: a removeFromCart that runs to its answer (no persistence failure) answers 200,
\* deletes the caller's line of the product when there is one and changes nothing
\* else; without such a line, and also when the caller never had a cart, it changes
\* no state at all and still answers 200.
C11_RemoveDeletesOrNoOp ==
    [][\A r \in Slots :
        /\ req[r].op = "removeFromCart" /\ InFlight(r)
        /\ req'[r].pc = "done" /\ ~req'[r].fault
        => /\ req'[r].status = 200
           /\ cartItems' = cartItems \ existingItems(findCart(req[r].user), req[r].body.productId)
           /\ carts' = carts /\ orders' = orders /\ products' = products]_vars

\* C12: a cart comes into being only in an addToCart of a user who has none, as that
\* user's cart, and an addToCart that succeeds leaves its caller with a cart; however
\* the addToCart calls of the users interleave, no user ever owns two carts.
C12_LazyCartOnePerUser ==
    /\ [][carts' # carts =>
            \E r \in DOMAIN req :
                /\ req[r].op = "addToCart" /\ req[r].pc = "createCart"
                /\ \A i \in 1..Len(carts) : carts[i] # req[r].user
                /\ carts' = Append(carts, req[r].user)]_vars
    /\ [][\A r \in DOMAIN req :
            Succeeds(r, "addToCart") => \E i \in 1..Len(carts') : carts'[i] = req[r].user]_vars
    /\ [](\A u \in UserIds : Cardinality({i \in 1..Len(carts) : carts[i] = u}) <= 1)

\* both users have their cart, and a second addToCart of one of them lost the race
\* to create it
C12_Witness ==
    /\ Len(carts) = 2 /\ carts[1] # carts[2]
    /\ \E r \in DOMAIN req :
        req[r].op = "addToCart" /\ req[r].pc = "done" /\ req[r].status = 500 /\ ~req[r].fault

\* C13: a login that runs to its answer (no persistence failure) with an email no
\* user has, or a password the stored hash is not the hash of, answers 401 and issues
\* no token; otherwise it answers 200 with a token of the user's id and email and the
\* user's public fields, the admin flag being the stored one.
C13_LoginUnauthorizedOrFlag ==
    [][\A r \in Slots :
        /\ req[r].op = "login" /\ InFlight(r)
        /\ req'[r].pc = "done" /\ ~req'[r].fault
        => LET matching == {u \in UserIds : /\ users[u].email = req[r].body.email
                                           /\ users[u].password = hash(req[r].body.password)}
           IN IF matching = {}
              THEN /\ req'[r].status = 401
                   /\ issued' = issued /\ req'[r].token = NoToken
              ELSE \E u \in matching :
                   /\ req'[r].status = 200
                   /\ req'[r].token = Sign(u, users[u].email)
                   /\ req'[r].token \in issued' /\ authenticateToken(req'[r].token) = 0
                   /\ req'[r].user = u
                   /\ req'[r].isAdmin = users[u].isAdmin]_vars

\* Bob, made admin since he registered, has logged in and is told so
C13_Witness ==
    /\ req[1].op = "login" /\ req[1].pc = "done" /\ req[1].status = 200
    /\ req[1].user = 2 /\ req[1].isAdmin /\ users[2].isAdmin
    /\ req[1].token = Sign(2, EmailB)

\* the routes under /admin
AdminRoutes == AdminReads \cup {"updateOrderStatus", "updateProduct", "deleteProduct", "makeAdmin"}

\* C14: a request to a route under /admin by an authenticated user whose stored admin
\* flag is false is answered 403 at its next step and changes no stored state; and a
\* step that changes a user's admin flag, an order's status or a product belongs to a
\* request of a user whose stored admin flag is true.
C14_NonAdminRejected ==
    /\ [][\A r \in Slots :
            /\ req[r].op \in AdminRoutes /\ InFlight(r)
            /\ req[r].user \in UserIds /\ ~users[req[r].user].isAdmin
            /\ req'[r] # req[r] /\ ~req'[r].fault
            => /\ req'[r].pc = "done" /\ req'[r].status = 403
               /\ UNCHANGED dbVars]_vars
    /\ [][(\/ \E u \in UserIds : users'[u].isAdmin # users[u].isAdmin
           \/ \E o \in 1..Len(orders) : orders'[o].status # orders[o].status
           \/ products' # products)
          => \E r \in Slots : /\ InFlight(r) /\ req[r].user \in UserIds
                              /\ users[req[r].user].isAdmin]_vars

\* C15: requireAdmin answers from the admin flag stored when the request is served:
\* whatever the token, the request is rejected with 403 exactly when the stored flag
\* of the token's user is false at that moment, so the token that was rejected is
\* accepted once the flag has become true.
C15_GateReadsStoredFlag ==
    [][\A r \in Slots :
        /\ req[r].pc = "findAdmin"
        /\ req'[r] # req[r] /\ ~req'[r].fault
        => /\ req[r].user \in UserIds
           /\ (req'[r].pc = "done" /\ req'[r].status = 403) <=> ~users[req[r].user].isAdmin
           /\ users[req[r].user].isAdmin =>
                \/ req'[r].pc \in {"handler", "updateProduct"}
                \/ req'[r].pc = "done" /\ req'[r].status = 400]_vars

\* user 2, not an admin when the token Sign(2, EmailB) was issued, has been served
\* an admin route with it
C15_Witness ==
    /\ req[1].op = "adminOrders" /\ req[1].pc = "handler" /\ req[1].user = 2
    /\ users[2].isAdmin
    /\ issued = {Sign(1, EmailA), Sign(2, EmailB)}

\* C16: a request to a token-protected route that authenticateToken turns away
\* (missing or invalid bearer token) is answered 401, the status of authentication
\* failures, not the 403 of authorization failures; the handler does not start and no
\* stored state changes.
C16_BadTokenUnauthorized ==
    [][\A r \in Slots :
        /\ Free(r) /\ req'[r] # req[r]
        /\ req'[r].pc = "done" /\ req'[r].status \in {401, 403}
        => /\ req'[r].status = 401
           /\ UNCHANGED dbVars]_vars

\* what each route requires of the body it parses
WellFormedProduct(body) == body.name # "" /\ body.price > 0 /\ body.stock >= 0
WellFormed(op, body) ==
    CASE op = "register" -> isEmail(body.email) /\ body.name # "" /\ Len(body.password) >= 6
      [] op = "login" -> isEmail(body.email) /\ body.password # ""
      [] op = "createProduct" -> WellFormedProduct(body)
      [] op = "addToCart" -> body.productId # 0 /\ body.quantity > 0 /\ body.quantity % 2 = 0
      [] OTHER -> TRUE

\* C17: a request to register, login, create a product or add to the cart enters its
\* handler only with a well-formed body, and a product update reaches its write only
\* with one; a request turned away before is answered 400 with details (or 401/403
\* when the token or the admin check fails first) and users, products, carts and cart
\* lines are as before.
C17_InvalidBodyRejected ==
    /\ [][\A r \in Slots :
            Free(r) /\ req'[r] # req[r]
            => \/ InFlight(r)' /\ WellFormed(req'[r].op, req'[r].body)
               \/ /\ req'[r].pc = "done"
                  /\ \/ req'[r].status = 400 /\ req'[r].details
                     \/ req'[r].status \in {401, 403}
                  /\ UNCHANGED <<users, products, carts, cartItems>>]_vars
    /\ [][\A r \in Slots :
            /\ req[r].op = "updateProduct" /\ req[r].pc = "findAdmin"
            /\ req'[r] # req[r] /\ ~req'[r].fault
            => \/ req'[r].pc = "updateProduct" /\ WellFormedProduct(req[r].body)
               \/ /\ req'[r].pc = "done"
                  /\ \/ req'[r].status = 400 /\ req'[r].details
                                            /\ ~WellFormedProduct(req[r].body)
                     \/ req'[r].status = 403
                  /\ UNCHANGED <<users, products, carts, cartItems>>]_vars

\* an addToCart with a malformed body was answered 400 with details, the line the
\* cart already had being as it was
C17_Witness ==
    /\ req[1].op = "addToCart" /\ req[1].pc = "done" /\ req[1].status = 400 /\ req[1].details
    /\ \E l \in cartItems : l.productId = 1 /\ l.quantity = 1
    /\ Len(products) = 3

\* C18: every stored order's status is one of pending, processing, completed and
\* cancelled, whatever createOrder and updateOrderStatus calls were made: a status
\* outside the set is never stored.
C18_StatusInFixedSet ==
    \A o \in 1..Len(orders) : orders[o].status \in StatusOptions

\* C19: no step of createOrder, addToCart or removeFromCart changes a product, and a
\* product's stock changes only in the write of an updateProduct request of a user
\* whose stored admin flag is true, to the stock that request carries.
C19_StockOnlyByAdminUpdate ==
    /\ [][\A r \in Slots :
            req[r].op \in {"createOrder", "addToCart", "removeFromCart"} /\ req'[r] # req[r]
            => products' = products]_vars
    /\ [][\A p \in DOMAIN products :
            p \in DOMAIN products' /\ products'[p].stock # products[p].stock
            => \E r \in Slots :
                /\ req[r].op = "updateProduct" /\ req[r].pc = "updateProduct"
                /\ req[r].body.id = p /\ products'[p].stock = req[r].body.stock
                /\ users[req[r].user].isAdmin]_vars

\* an order of two Widgets was just created while the stock is the 2 an admin set
C19_Witness ==
    /\ req[1].op = "createOrder" /\ req[1].pc = "done" /\ req[1].status = 200
    /\ Len(orders) = 1 /\ \E item \in orders[1].items : item.productId = 1 /\ item.quantity = 2
    /\ products[1].stock = 2

C21_AtMostOnceNoReplay ==
    /\ [](\A s \in SocketIds : \A i \in 1..Len(delivered[s]), j \in 1..Len(delivered[s]) :
            delivered[s][i] = delivered[s][j] => i = j)
    /\ [][\A s \in SocketIds :
            delivered'[s] # delivered[s]
            => /\ sockets[s] = "open"
               /\ Len(messages') = Len(messages) + 1
               /\ delivered'[s] = Append(delivered[s], Len(messages'))]_vars

\* socket 2 connected after message 1 was broadcast: it has message 2 only
C21_Witness ==
    /\ Len(messages) = 2
    /\ delivered[1] = <<1, 2>> /\ delivered[2] = <<2>>
    /\ sockets[2] = "open"

\* C22: every newMessage event a socket was emitted is of a persisted message; the
\* step of a send that persists its message emits that message and no other, and a
\* send whose message is not persisted ends with no event emitted to any socket.
C22_EmitAfterPersist ==
    /\ [](\A s \in SocketIds : \A i \in 1..Len(delivered[s]) :
            delivered[s][i] \in 1..Len(messages))
    /\ [][\A r \in Slots :
            req[r].op = "sendMessage" /\ req[r].pc = "createMessage" /\ req'[r] # req[r]
            => /\ Free(r)'
               /\ IF Len(messages') = Len(messages) + 1
                  THEN /\ messages'[Len(messages')].userId = req[r].body.userId
                       /\ \A s \in SocketIds :
                            \/ delivered'[s] = delivered[s]
                            \/ delivered'[s] = Append(delivered[s], Len(messages'))
                  ELSE messages' = messages /\ delivered' = delivered]_vars

\* a send of an unknown author failed after message 1 was broadcast: nothing came of it
C22_Witness ==
    /\ req[1].op = "sendMessage" /\ req[1].pc = "done" /\ req[1].status = 500
    /\ Len(messages) = 1
    /\ sockets[1] = "open" /\ sockets[2] = "open"
    /\ delivered[1] = <<1>> /\ delivered[2] = <<1>>

\* C23: every cart line has a quantity of at least 1, whatever addToCart calls, with
\* well-formed or rejected bodies, were made, and it is a whole number.
C23_LineQuantityPositive ==
    \A l \in cartItems : l.quantity >= 1 /\ l.quantity \in Nat

\* adds with quantity 0, -1 and 0.5 were tried; the last one was rejected while the
\* cart holds its line of 3
C23_Witness ==
    /\ req[1].op = "addToCart" /\ req[1].pc = "done" /\ req[1].status = 400
    /\ \E l \in cartItems : l.productId = 1 /\ l.quantity = 3
    /\ nextItemId = 2

\* C24: when the login page's fetch settles the loading flag is false; if the
\* response is a success whose user has the admin flag
\* the token and the user are put in local storage and the browser goes to /admin;
\* in every other outcome local storage and the page are as before and an error is
\* shown.  Nothing else writes the local storage.
C24_LoginPageStoresOnlyAdmin ==
    /\ [][browser.pc = "login" /\ browser' # browser
          => LET res == browser'.res IN
             /\ browser'.loading = FALSE
             /\ IF res.ok /\ res.user.isAdmin
                THEN /\ browser'.token = res.token /\ browser'.user = res.user
                     /\ browser'.location = "/admin"
                ELSE /\ browser'.token = browser.token /\ browser'.user = browser.user
                     /\ browser'.location = "/admin-login"
                     /\ browser'.error # ""]_vars
    /\ [][browser'.token # browser.token \/ browser'.user # browser.user
          => browser.pc = "login"]_vars

\* Bob, not an admin, logged in with his password: denied, nothing stored
C24_Witness ==
    /\ browser.res.ok /\ browser.res.user.id = 2 /\ ~browser.res.user.isAdmin
    /\ browser.location = "/admin-login" /\ browser.pc = "idle" /\ ~browser.loading
    /\ browser.error = "Access denied. Admin privileges required."
    /\ browser.token = NoToken /\ browser.user = NoUser

\* C30: once the admin console has loaded with a token and an admin user record in
\* local storage, each of the three requests it issued on load (users, orders, stats)
\* carries the stored token as its bearer token.
C30_OnLoadRequestsCarryStoredToken ==
    browser.pc = "loaded"
        => /\ Len(browser.sent) = 3
           /\ \A i \in 1..Len(browser.sent) : browser.sent[i] = browser.token

\* C25: once the addToCart calls of a user have all been answered, the cart has at most
\* one line for each product and its quantity is the sum of the quantities added by the
\* calls that succeeded since the line was last removed, also when two of the calls ran
\* concurrently (no lost update, no duplicate line).
C25_ConcurrentAddsSum ==
    (\A r \in DOMAIN req : Free(r))
        => \A u \in UserIds, p \in ProductIds :
              /\ Cardinality(existingItems(findCart(u), p)) <= 1
              /\ LineQty(u, p) = replay[u][p]

\* the cart lines an order was made from
LinesIn(order) == {item.line : item \in order.items}

\* C26: no cart line is materialized into two orders: of two concurrent createOrder
\* calls on one cart at most one creates an order from its content.
C26_CartOrderedOnce ==
    \A i, j \in 1..Len(orders) : i # j => LinesIn(orders[i]) \cap LinesIn(orders[j]) = {}

\* C27: every cart line that the clearing step of createOrder removes is recorded in
\* the order the call created, with the quantity the line had when it was removed.
C27_ClearedLinesAreOrdered ==
    [][\A r \in DOMAIN req :
          req[r].op = "createOrder" /\ req[r].pc = "clearCart" /\ req'[r].status = 200
          => \A l \in cartItems \ cartItems' :
                \E item \in orders[req[r].order].items :
                    item.line = l.id /\ item.quantity = l.quantity]_vars

\* the lines of a user's cart and the orders of a user
CartOf(u) == {l \in cartItems : l.cartId \in DOMAIN carts /\ carts[l.cartId] = u}
PlacedBy(u) == SelectSeq(orders, LAMBDA o : o.userId = u)

\* C28: a step of a cart or order request made with user A's token leaves the cart
\* lines and the orders of every other user as they are; an order it creates belongs
\* to A; the cart it answers a cart listing with is A's, and an order listing is
\* answered with exactly A's orders.
C28_PerUserIsolation ==
    [][\A r \in DOMAIN req :
          req'[r] # req[r]
          => LET A == IF req[r].user # 0 THEN req[r].user ELSE req'[r].user IN
             /\ \A B \in UserIds \ {A} : CartOf(B)' = CartOf(B) /\ PlacedBy(B)' = PlacedBy(B)
             /\ Len(orders') > Len(orders) => orders'[Len(orders')].userId = A
             /\ req'[r].op = "getCart" /\ req'[r].status = 200 /\ req'[r].cart # 0
                   => carts[req'[r].cart] = A
             /\ req'[r].op = "getOrders" /\ req'[r].status = 200
                   => req'[r].listed = {i \in DOMAIN orders : orders[i].userId = A}]_vars

\* Ann, with a line in her cart, lists her orders while Bob's order is stored: none
C28_Witness ==
    /\ req[1].op = "getOrders" /\ req[1].status = 200 /\ req[1].user = 1
    /\ req[1].listed = {}
    /\ Len(orders) = 1 /\ orders[1].userId = 2
    /\ CartOf(1) # {}

\* how many times a message is in the client's list
Shown(id) == Cardinality({i \in DOMAIN browser.messages : browser.messages[i] = id})

\* C29: once the history response has been taken and every pushed event handled, each
\* message that was pushed to the client's socket is in the client's message list
\* exactly once.
C29_PushedMessageShownOnce ==
    /\ browser.pc = "home"
    /\ browser.seen = Len(delivered[browser.socket])
    => \A i \in DOMAIN delivered[browser.socket] : Shown(delivered[browser.socket][i]) = 1

====
